---- MODULE Spec2Model ----
(***************************************************************************)
(* A model of the ADE evidence pipeline of scripts/:                       *)
(*   normalize_terms.py        normalize_text, fuzzy_match, main           *)
(*   clean_n2c2_normalized.py  the drug_norm / ade_norm derivation         *)
(*   link_sider.py             check_ade_consistency                       *)
(*   filter_ades.py            analyze_drug_patterns, should_keep_ade,     *)
(*                             filter_ades, main                           *)
(* Each script is a program of its own and has its own specification.      *)
(* Text is a sequence of one-character strings.                            *)
(* Ratios are kept as exact fractions <<numerator, denominator>>; the      *)
(* caller's consistency_threshold is kept in hundredths (0.4 is 40).  For  *)
(* counts of this size the float comparisons of the code agree with the    *)
(* exact ones.                                                             *)
(***************************************************************************)
EXTENDS Integers, Sequences, FiniteSets, TLC

VARIABLES
    pc,                     \* position of the run of filter_ades.py
    n2c2_df,                \* the validated mention table (rows in order)
    sider_df,               \* the reference table (rows in order)
    min_freq,               \* --min-freq
    consistency_threshold,  \* --threshold, in hundredths
    sider_freqs,            \* dict (drug, ade) -> frequency
    drug_patterns,          \* dict drug -> stats
    idx,                    \* rows consumed by the running loop
    keep_rows,              \* list of kept decisions
    reasons,                \* list of reason codes
    backend,                \* _backend of normalize_terms.py
    nt_arg,                 \* the argument of a normalize_text call
    nt_ret,                 \* the values normalize_text returned, in order
    fm_arg,                 \* the arguments of a fuzzy_match call
    fm_ret,                 \* what fuzzy_match returned
    drug_dict,              \* reference dictionary of drug names
    se_dict,                \* reference dictionary of side-effect names
    relations_df,           \* the raw relation table main reads
    normalized_df,          \* the rows of n2c2_normalized.csv
    clean_df,               \* the rows of n2c2_clean.csv
    n2c2_normalized,        \* link_sider.py: the table read from n2c2_clean.csv
    sider_effects,          \* link_sider.py: the table read from sider_clean.csv
    sider_pairs,            \* set of (drug, ade) of the reference
    sider_drugs_set,        \* set of drugs of the reference
    n2c2_data,              \* the copy that gets the two flags
    link_idx,               \* rows consumed by the loop of check_ade_consistency
    raw_files_exist,        \* drug_names.tsv and meddra_all_se.tsv are on disk
    drug_df,                \* build_sider_clean: the rows of drug_names.tsv
    meddra_df,              \* build_sider_clean: the rows of meddra_all_se.tsv
    stitch_to_drug,         \* dict identifier -> drug name
    pairs_list,             \* pairs: list of joined (drug_name, side_effect) rows
    build_idx,              \* rows consumed by the running loop of the build
    df_pairs,               \* the frame build_sider_clean returned
    sider_clean_csv         \* the file sider_clean.csv: header and rows

filter_vars == <<n2c2_df, sider_df, min_freq, consistency_threshold,
                 sider_freqs, drug_patterns, idx, keep_rows, reasons>>

normalize_vars == <<backend, nt_arg, nt_ret, fm_arg, fm_ret, drug_dict, se_dict,
                    relations_df, normalized_df, clean_df>>

link_vars == <<n2c2_normalized, sider_effects, sider_pairs, sider_drugs_set,
               n2c2_data, link_idx>>

build_vars == <<raw_files_exist, drug_df, meddra_df, stitch_to_drug, pairs_list,
                build_idx, df_pairs, sider_clean_csv>>

vars == <<pc, filter_vars, normalize_vars, link_vars, build_vars>>

-----------------------------------------------------------------------------
(* Bounds of the model.                                                    *)

MaxMentions == 5
\* Longest mention table whose every reordering is compared.
MaxPermuted == 4
MaxTotal == 5
\* Longest drug-name table and side-effect table of a build.
MaxDrugRows == 2
MaxMeddraRows == 2
MaxFreq == 3

Mention(d, a, c) == [drug_norm |-> d, ade_norm |-> a, is_consistent |-> c]
SiderRow(d, a, f) == [drug_norm |-> d, ade_norm |-> a, frequency |-> f]

\* The rows a mention table is drawn from.
MentionRows ==
    { Mention("d1", "a1", TRUE), Mention("d1", "a1", FALSE),
      Mention("d1", "a2", FALSE), Mention("d2", "a2", TRUE) }

\* The reference tables a run is started with.
SiderTables ==
    { <<>>,
      << SiderRow("d1", "a1", 1), SiderRow("d1", "a1", 3) >>,
      << SiderRow("d1", "a1", 3), SiderRow("d1", "a1", 1) >> }

\* The command lines a run is started with: <<min_freq, threshold>>.
Configs == { <<2, 40>>, <<-1, 40>>, <<2, 150>> }

SeqsUpTo(S, n) == UNION { [1..k -> S] : k \in 0..n }

-----------------------------------------------------------------------------
(* Python dicts as functions: the domain is the key set.                   *)

EmptyDict == [k \in {} |-> 0]

Put(d, k, v) == [x \in (DOMAIN d) \cup {k} |-> IF x = k THEN v ELSE d[x]]

Get(d, k, default) == IF k \in DOMAIN d THEN d[k] ELSE default

RECURSIVE SumValues(_)
SumValues(d) ==
    IF DOMAIN d = {} THEN 0
    ELSE LET k == CHOOSE x \in DOMAIN d : TRUE
         IN d[k] + SumValues([x \in (DOMAIN d) \ {k} |-> d[x]])

-----------------------------------------------------------------------------
(* A table cell: a str, or the missing value NaN.                          *)

Str(s) == [isna |-> FALSE, s |-> s]
NaN == [isna |-> TRUE, s |-> <<>>]

SetMin(S) == CHOOSE x \in S : \A y \in S : x <= y
SetMax(S) == CHOOSE x \in S : \A y \in S : x >= y

-----------------------------------------------------------------------------
(* normalize_text                                                          *)

MaxLen == 4

Alphabet == {"a", "A", ".", " ", "-"}
Whitespace == {" "}
\* The characters of the class of re.sub that occur in Alphabet.
Punctuation == {"."}

\* s.lower()
LowerChar(c) == IF c = "A" THEN "a" ELSE c
Lower(s) == [i \in 1..Len(s) |-> LowerChar(s[i])]

\* re.sub(r"[\"\'\.,;:\!\?\(\)\[\]\{\}]", "", s)
IsKept(c) == c \notin Punctuation
RemovePunctuation(s) == SelectSeq(s, IsKept)

\* A mutant: s.lstrip(), the right end is left as it is.
StripLeftOnly(s) ==
    LET inked == { i \in 1..Len(s) : s[i] \notin Whitespace }
    IN IF inked = {} THEN <<>> ELSE SubSeq(s, SetMin(inked), Len(s))

\* s.strip()
Strip(s) ==
    LET inked == { i \in 1..Len(s) : s[i] \notin Whitespace }
    IN IF inked = {} THEN <<>> ELSE SubSeq(s, SetMin(inked), SetMax(inked))

\* A mutant: the ends are stripped before the punctuation is removed.
normalize_text_strip_first(x) ==
    IF x.isna THEN <<>> ELSE RemovePunctuation(Strip(Lower(x.s)))

normalize_text(x) ==
    IF x.isna THEN <<>> ELSE Strip(RemovePunctuation(Lower(x.s)))

-----------------------------------------------------------------------------
(* fuzzy_match                                                             *)

DefaultThreshold == 85
ExactScore == 100
SubstringScore == 80

\* A reference dictionary is the list of its items in insertion order.
Entry(k, o) == [key |-> k, original |-> o]
Keys(d) == { d[i].key : i \in 1..Len(d) }
Lookup(d, k) == d[CHOOSE i \in 1..Len(d) : d[i].key = k].original

\* s in t
IsSubstring(s, t) ==
    \E i \in 0..(Len(t) - Len(s)) : SubSeq(t, i + 1, i + Len(s)) = s

\* What process.extractOne(term, choices, scorer=fuzz.WRatio) answers: nothing,
\* or one of the choices with a score; the score is kept in tenths (rapidfuzz
\* scores are floats, fuzzywuzzy scores are ints).
NoAnswer == [found |-> FALSE, match |-> <<>>, score10 |-> 0]
LibraryScores(be) ==
    IF be = "rapidfuzz" THEN {0, 849, 855} ELSE {0, 840, 850}
LibraryAnswers(be, d) ==
    {NoAnswer} \cup
    { [found |-> TRUE, match |-> k, score10 |-> sc] :
        k \in Keys(d), sc \in LibraryScores(be) }

NoMatch(score) == << <<>>, <<>>, score >>

\* fuzzy_match: <<matched_normalized, matched_original, score>>; res is the
\* library's answer, read only under a library backend.
fuzzy_match(term, reference_dict, threshold, be, res) ==
    IF term = <<>> \/ reference_dict = <<>> THEN NoMatch(0)
    ELSE IF be \in {"rapidfuzz", "fuzzywuzzy"}
    THEN IF ~res.found THEN NoMatch(0)
         ELSE IF res.score10 >= threshold * 10
         THEN <<res.match, Lookup(reference_dict, res.match), res.score10 \div 10>>
         ELSE NoMatch(res.score10 \div 10)
    ELSE IF term \in Keys(reference_dict)
    THEN <<term, Lookup(reference_dict, term), ExactScore>>
    ELSE LET hits == { i \in 1..Len(reference_dict) :
                         \/ IsSubstring(term, reference_dict[i].key)
                         \/ IsSubstring(reference_dict[i].key, term) }
         IN IF hits # {}
            THEN <<reference_dict[SetMin(hits)].key,
                   reference_dict[SetMin(hits)].original, SubstringScore>>
            ELSE NoMatch(0)

-----------------------------------------------------------------------------
(* normalize_terms.py main, and clean_n2c2_normalized.py                   *)

MaxRelations == 1

Backends == {"rapidfuzz", "fuzzywuzzy", "none"}

\* The raw spans a relation row is drawn from.
RawTerms == { NaN, Str(<<"A", ".">>), Str(<<" ", "a", "-">>) }
RawRows == { [drug |-> d, ade |-> a] : d \in RawTerms, a \in RawTerms }

\* The dictionaries load_drug_names / load_meddra_side_effects hand over.
RefDicts ==
    { <<>>,
      << Entry(<<"a", "-">>, <<"A", "-">>) >>,
      << Entry(<<"a", "-", "a">>, <<"A", "-", "a">>),
         Entry(<<"a">>, <<"A", ".">>) >> }

\* The normalized terms and thresholds of a direct fuzzy_match call.
MatchTerms == { <<>>, <<"a">>, <<"a", "-">>, <<"-">> }
MatchThresholds == {0, 80, 85, 100}

\* A string cell written by to_csv and read back by read_csv: the empty
\* string comes back as NaN.
CsvCell(s) == IF s = <<>> THEN NaN ELSE Str(s)

\* Series.fillna(other)
Fillna(a, b) == IF a.isna THEN b ELSE a
\* Series.replace("", pd.NA)
ReplaceEmpty(a) == IF ~a.isna /\ a.s = <<>> THEN NaN ELSE a

\* The drug_norm / ade_norm derivation of clean_n2c2_normalized.py.
CleanCell(matched, normalized) ==
    Fillna(ReplaceEmpty(Fillna(matched, normalized)), normalized)

CleanRow(row) ==
    [drug_norm |-> CleanCell(CsvCell(row.drug_matched), CsvCell(row.drug_normalized)),
     ade_norm |-> CleanCell(CsvCell(row.ade_matched), CsvCell(row.ade_normalized))]

\* One iteration of the loop of main, with the library's two answers.
MainRow(row, ddict, sdict, be, dres, ares) ==
    LET nd == normalize_text(row.drug)
        na == normalize_text(row.ade)
        md == fuzzy_match(nd, ddict, DefaultThreshold, be, dres)
        ma == fuzzy_match(na, sdict, DefaultThreshold, be, ares)
    IN [drug_normalized |-> nd, ade_normalized |-> na,
        drug_matched |-> md[1], drug_matched_original |-> md[2],
        ade_matched |-> ma[1], ade_matched_original |-> ma[2],
        drug_match_score |-> md[3], ade_match_score |-> ma[3]]

NormalizeIdle ==
    /\ backend = "none"
    /\ nt_arg = NaN
    /\ nt_ret = <<>>
    /\ fm_arg = <<>>
    /\ fm_ret = <<>>
    /\ drug_dict = <<>>
    /\ se_dict = <<>>
    /\ relations_df = <<>>
    /\ normalized_df = <<>>
    /\ clean_df = <<>>

-----------------------------------------------------------------------------
(* link_sider.py: check_ade_consistency                                    *)

MaxLinkRows == 2

\* Series.astype(str): the missing value becomes the text nan.
AsStr(cell) == IF cell.isna THEN <<"n", "a", "n">> ELSE cell.s
\* DataFrame.fillna("")
FillEmpty(cell) == IF cell.isna THEN <<>> ELSE cell.s
\* .str.lower().str.strip()
LowerStrip(s) == Strip(Lower(s))

Cells(d, a) == [drug_norm |-> d, ade_norm |-> a]

\* The rows the two tables are drawn from.
LinkMentionRows ==
    { Cells(Str(<<"a">>), Str(<<"x">>)), Cells(Str(<<"a">>), Str(<<"y">>)),
      Cells(Str(<<"b">>), Str(<<"x">>)), Cells(NaN, Str(<<"x">>)) }
LinkSiderRows ==
    { Cells(Str(<<"A", " ">>), Str(<<"x">>)), Cells(Str(<<"b">>), Str(<<"y">>)),
      Cells(NaN, Str(<<"x">>)) }

\* sider_pairs, from the reference table.
SiderPairs(table) ==
    { << LowerStrip(FillEmpty(table[i].drug_norm)),
         LowerStrip(FillEmpty(table[i].ade_norm)) >> : i \in 1..Len(table) }

\* sider_drugs_set, from the reference table.
SiderDrugsSet(table) ==
    { LowerStrip(FillEmpty(table[i].drug_norm)) : i \in 1..Len(table) }

\* The copy of the mention table with its keys lowered and stripped and the
\* two flags at their defaults.
PrepareRow(row) ==
    [drug_norm |-> LowerStrip(AsStr(row.drug_norm)),
     ade_norm |-> LowerStrip(AsStr(row.ade_norm)),
     is_consistent |-> FALSE, sider_match_found |-> FALSE]

\* A mutant: the drug-only lookup of the else branch is left out.
LinkRowPairOnly(row, pairs, drugs) ==
    IF <<row.drug_norm, row.ade_norm>> \in pairs
    THEN [row EXCEPT !.is_consistent = TRUE, !.sider_match_found = TRUE]
    ELSE row

\* A mutant: the pair branch sets is_consistent only.
LinkRowConsistentOnly(row, pairs, drugs) ==
    IF <<row.drug_norm, row.ade_norm>> \in pairs
    THEN [row EXCEPT !.is_consistent = TRUE]
    ELSE [row EXCEPT !.sider_match_found = (row.drug_norm \in drugs)]

\* One iteration of the loop of check_ade_consistency.
LinkRow(row, pairs, drugs) ==
    IF <<row.drug_norm, row.ade_norm>> \in pairs
    THEN [row EXCEPT !.is_consistent = TRUE, !.sider_match_found = TRUE]
    ELSE [row EXCEPT !.sider_match_found = (row.drug_norm \in drugs)]

LinkIdle ==
    /\ n2c2_normalized = <<>>
    /\ sider_effects = <<>>
    /\ sider_pairs = {}
    /\ sider_drugs_set = {}
    /\ n2c2_data = <<>>
    /\ link_idx = 0

-----------------------------------------------------------------------------
(* build_sider_clean                                                       *)

\* A DataFrame: its column names and its rows in order.
Frame(columns, rows) == [columns |-> columns, rows |-> rows]

\* pd.DataFrame(columns=['drug_name', 'side_effect'])
EmptyPairsFrame == Frame(<<"drug_name", "side_effect">>, <<>>)

\* pd.DataFrame(pairs): a list of dicts gives their keys as columns, an empty
\* list gives a frame without columns.
DataFrame(rows) ==
    IF rows = <<>> THEN Frame(<<>>, <<>>)
    ELSE Frame(<<"drug_name", "side_effect">>, rows)

\* DataFrame.drop_duplicates(): the first of equal rows stays.
RECURSIVE DropDuplicates(_)
DropDuplicates(rows) ==
    IF rows = <<>> THEN <<>>
    ELSE LET front == DropDuplicates(SubSeq(rows, 1, Len(rows) - 1))
             last == rows[Len(rows)]
         IN IF \E i \in 1..Len(front) : front[i] = last
            THEN front ELSE Append(front, last)

\* str(row['stitch_id']).strip()
IdKey(cell) == Strip(AsStr(cell))

\* pd.notna(x) and str(x).strip()
NotBlank(cell) == ~cell.isna /\ Strip(cell.s) # <<>>

DrugNameRow(id, name) == [stitch_id |-> id, drug_name |-> name]
MeddraRow(id, se) == [stitch_flat |-> id, side_effect |-> se]

\* The rows the two raw tables are drawn from.
DrugNameRows ==
    { DrugNameRow(Str(<<"1">>), Str(<<"A">>)),
      DrugNameRow(Str(<<"1">>), Str(<<"-">>)),
      DrugNameRow(Str(<<"1">>), NaN),
      DrugNameRow(Str(<<"2">>), Str(<<".">>)),
      DrugNameRow(Str(<<"2", " ">>), Str(<<"a">>)),
      DrugNameRow(NaN, Str(<<"a">>)) }
MeddraRows ==
    { MeddraRow(Str(<<"1">>), Str(<<"A">>)),
      MeddraRow(Str(<<"1", " ">>), Str(<<"a", ".">>)),
      MeddraRow(Str(<<"2">>), Str(<<"-">>)),
      MeddraRow(Str(<<"3">>), Str(<<"a">>)),
      MeddraRow(Str(<<"1">>), NaN),
      MeddraRow(Str(<<"1">>), Str(<<".">>)),
      MeddraRow(NaN, Str(<<"a">>)) }

\* A mutant: the first drug row of an identifier keeps its name.
MapDrugRowFirstWins(map, row) ==
    IF NotBlank(row.drug_name) /\ IdKey(row.stitch_id) \notin DOMAIN map
    THEN Put(map, IdKey(row.stitch_id), Strip(row.drug_name.s))
    ELSE map

\* One iteration of the loop that fills stitch_to_drug.
MapDrugRow(map, row) ==
    IF NotBlank(row.drug_name)
    THEN Put(map, IdKey(row.stitch_id), Strip(row.drug_name.s))
    ELSE map

\* One iteration of the loop over the side-effect rows.
JoinMeddraRow(joined, map, row) ==
    LET stitch_flat == IdKey(row.stitch_flat)
        se == row.side_effect
    IN IF ~NotBlank(se) THEN joined
       ELSE IF stitch_flat \notin DOMAIN map \/ map[stitch_flat] = <<>>
       THEN joined
       ELSE LET drug_norm == normalize_text(Str(map[stitch_flat]))
                se_norm == normalize_text(se)
            IN IF drug_norm # <<>> /\ se_norm # <<>>
               THEN Append(joined, [drug_name |-> drug_norm,
                                    side_effect |-> se_norm])
               ELSE joined

\* The columns of sider_clean.csv the two consumers index.
LinkReads == {"drug_norm", "ade_norm"}
FilterReads == {"drug_norm", "ade_norm", "frequency"}

Columns(frame) == { frame.columns[i] : i \in 1..Len(frame.columns) }

BuildIdle ==
    /\ raw_files_exist = FALSE
    /\ drug_df = <<>>
    /\ meddra_df = <<>>
    /\ stitch_to_drug = EmptyDict
    /\ pairs_list = <<>>
    /\ build_idx = 0
    /\ df_pairs = Frame(<<>>, <<>>)
    /\ sider_clean_csv = Frame(<<>>, <<>>)

-----------------------------------------------------------------------------
(* analyze_drug_patterns                                                   *)

\* The defaultdict factory of drug_patterns.
DefaultStats ==
    [total_mentions |-> 0, ades |-> EmptyDict,
     consistent_ades |-> {}, sider_validated |-> 0]

\* A mutant: the per-ADE count is only incremented for consistent mentions.
AggregateRowAdeOnlyIfConsistent(patterns, row) ==
    LET drug == row.drug_norm
        ade == row.ade_norm
        stats == Get(patterns, drug, DefaultStats)
        counted == [stats EXCEPT !.total_mentions = @ + 1]
        validated ==
            IF row.is_consistent
            THEN [counted EXCEPT !.ades = Put(@, ade, Get(@, ade, 0) + 1),
                                 !.consistent_ades = @ \cup {ade},
                                 !.sider_validated = @ + 1]
            ELSE counted
    IN Put(patterns, drug, validated)

\* A mutant: sider_validated counts a streak, a mention that is not
\* consistent sets it back to zero.
AggregateRowValidatedStreak(patterns, row) ==
    LET drug == row.drug_norm
        ade == row.ade_norm
        stats == Get(patterns, drug, DefaultStats)
        counted == [stats EXCEPT !.total_mentions = @ + 1,
                                 !.ades = Put(@, ade, Get(@, ade, 0) + 1)]
        validated ==
            IF row.is_consistent
            THEN [counted EXCEPT !.consistent_ades = @ \cup {ade},
                                 !.sider_validated = @ + 1]
            ELSE [counted EXCEPT !.sider_validated = 0]
    IN Put(patterns, drug, validated)

\* One iteration of the loop of analyze_drug_patterns.
AggregateRow(patterns, row) ==
    LET drug == row.drug_norm
        ade == row.ade_norm
        stats == Get(patterns, drug, DefaultStats)
        counted == [stats EXCEPT !.total_mentions = @ + 1,
                                 !.ades = Put(@, ade, Get(@, ade, 0) + 1)]
        validated ==
            IF row.is_consistent
            THEN [counted EXCEPT !.consistent_ades = @ \cup {ade},
                                 !.sider_validated = @ + 1]
            ELSE counted
    IN Put(patterns, drug, validated)

\* analyze_drug_patterns on the first n rows of a table, as one function.
RECURSIVE analyze_drug_patterns(_, _)
analyze_drug_patterns(table, n) ==
    IF n = 0 THEN EmptyDict
    ELSE AggregateRow(analyze_drug_patterns(table, n - 1), table[n])

-----------------------------------------------------------------------------
(* should_keep_ade                                                         *)

\* A mutant: a drug with zero total mentions gets a ratio of 1.
RatioDefaultOne(n, d) == IF d > 0 THEN <<n, d>> ELSE <<1, 1>>

\* n / d if d > 0 else 0, as a fraction.
Ratio(n, d) == IF d > 0 THEN <<n, d>> ELSE <<0, 1>>

\* r >= num / den, for den > 0.
RatioGE(r, num, den) == r[1] * den >= num * r[2]

\* A mutant: the local-signal rule is tried before the reference rule.
should_keep_ade_local_first(row, patterns, freqs, minf, threshold) ==
    LET drug == row.drug_norm
        ade == row.ade_norm
        has_stats == drug \in DOMAIN patterns
        total_mentions == IF has_stats THEN patterns[drug].total_mentions ELSE 0
        ade_mentions == IF has_stats THEN Get(patterns[drug].ades, ade, 0) ELSE 0
        sider_validated == IF has_stats THEN patterns[drug].sider_validated ELSE 0
        mention_ratio == Ratio(ade_mentions, total_mentions)
        sider_consistency == Ratio(sider_validated, total_mentions)
        sider_freq == Get(freqs, <<drug, ade>>, 0)
    IN  IF RatioGE(mention_ratio, 1, 2) /\ ade_mentions >= 2
        THEN <<TRUE, "strong_local_signal">>
        ELSE IF row.is_consistent /\ sider_freq >= minf
        THEN <<TRUE, "high_confidence_sider">>
        ELSE IF RatioGE(sider_consistency, threshold, 100) /\ ade_mentions >= 2
        THEN <<TRUE, "consistent_drug_pattern">>
        ELSE IF total_mentions >= 5 /\ RatioGE(mention_ratio, 3, 10)
        THEN <<TRUE, "frequent_association">>
        ELSE <<FALSE, "insufficient_evidence">>

\* A mutant: the frequent-association rule forgets the mention-count cutoff.
should_keep_ade_no_total_cutoff(row, patterns, freqs, minf, threshold) ==
    LET drug == row.drug_norm
        ade == row.ade_norm
        has_stats == drug \in DOMAIN patterns
        total_mentions == IF has_stats THEN patterns[drug].total_mentions ELSE 0
        ade_mentions == IF has_stats THEN Get(patterns[drug].ades, ade, 0) ELSE 0
        sider_validated == IF has_stats THEN patterns[drug].sider_validated ELSE 0
        mention_ratio == Ratio(ade_mentions, total_mentions)
        sider_consistency == Ratio(sider_validated, total_mentions)
        sider_freq == Get(freqs, <<drug, ade>>, 0)
    IN  IF row.is_consistent /\ sider_freq >= minf
        THEN <<TRUE, "high_confidence_sider">>
        ELSE IF RatioGE(mention_ratio, 1, 2) /\ ade_mentions >= 2
        THEN <<TRUE, "strong_local_signal">>
        ELSE IF RatioGE(sider_consistency, threshold, 100) /\ ade_mentions >= 2
        THEN <<TRUE, "consistent_drug_pattern">>
        ELSE IF RatioGE(mention_ratio, 3, 10)
        THEN <<TRUE, "frequent_association">>
        ELSE <<FALSE, "insufficient_evidence">>

\* A mutant: rule 3 lacks its cutoff on the ADE count.
should_keep_ade_pattern_any_count(row, patterns, freqs, minf, threshold) ==
    LET drug == row.drug_norm
        ade == row.ade_norm
        has_stats == drug \in DOMAIN patterns
        total_mentions == IF has_stats THEN patterns[drug].total_mentions ELSE 0
        ade_mentions == IF has_stats THEN Get(patterns[drug].ades, ade, 0) ELSE 0
        sider_validated == IF has_stats THEN patterns[drug].sider_validated ELSE 0
        mention_ratio == Ratio(ade_mentions, total_mentions)
        sider_consistency == Ratio(sider_validated, total_mentions)
        sider_freq == Get(freqs, <<drug, ade>>, 0)
    IN  IF row.is_consistent /\ sider_freq >= minf
        THEN <<TRUE, "high_confidence_sider">>
        ELSE IF RatioGE(mention_ratio, 1, 2) /\ ade_mentions >= 2
        THEN <<TRUE, "strong_local_signal">>
        ELSE IF RatioGE(sider_consistency, threshold, 100)
        THEN <<TRUE, "consistent_drug_pattern">>
        ELSE IF total_mentions >= 5 /\ RatioGE(mention_ratio, 3, 10)
        THEN <<TRUE, "frequent_association">>
        ELSE <<FALSE, "insufficient_evidence">>

\* should_keep_ade: <<kept, reason>>.
should_keep_ade(row, patterns, freqs, minf, threshold) ==
    LET drug == row.drug_norm
        ade == row.ade_norm
        has_stats == drug \in DOMAIN patterns
        total_mentions == IF has_stats THEN patterns[drug].total_mentions ELSE 0
        ade_mentions == IF has_stats THEN Get(patterns[drug].ades, ade, 0) ELSE 0
        sider_validated == IF has_stats THEN patterns[drug].sider_validated ELSE 0
        mention_ratio == Ratio(ade_mentions, total_mentions)
        sider_consistency == Ratio(sider_validated, total_mentions)
        sider_freq == Get(freqs, <<drug, ade>>, 0)
    IN  IF row.is_consistent /\ sider_freq >= minf
        THEN <<TRUE, "high_confidence_sider">>
        ELSE IF RatioGE(mention_ratio, 1, 2) /\ ade_mentions >= 2
        THEN <<TRUE, "strong_local_signal">>
        ELSE IF RatioGE(sider_consistency, threshold, 100) /\ ade_mentions >= 2
        THEN <<TRUE, "consistent_drug_pattern">>
        ELSE IF total_mentions >= 5 /\ RatioGE(mention_ratio, 3, 10)
        THEN <<TRUE, "frequent_association">>
        ELSE <<FALSE, "insufficient_evidence">>

\* A mutant: the lookups index the maps as defaultdicts do, which inserts a
\* default entry for a drug or an ADE that is not there yet.
PatternsAfterIndexing(patterns, row) ==
    LET drug == row.drug_norm
        ade == row.ade_norm
        withDrug == IF drug \in DOMAIN patterns THEN patterns
                    ELSE Put(patterns, drug, DefaultStats)
        stats == withDrug[drug]
    IN Put(withDrug, drug,
           [stats EXCEPT !.ades = IF ade \in DOMAIN @ THEN @ ELSE Put(@, ade, 0)])

\* The pattern map as a call of should_keep_ade leaves it: every read goes
\* through dict.get with a default, which inserts nothing.
PatternsAfterLookups(patterns, row) == patterns

-----------------------------------------------------------------------------
(* filter_ades                                                             *)

\* A mutant: the first row seen for a pair keeps its place in the lookup.
RECURSIVE BuildSiderFreqsFirstWins(_, _)
BuildSiderFreqsFirstWins(table, n) ==
    IF n = 0 THEN EmptyDict
    ELSE LET rest == BuildSiderFreqsFirstWins(table, n - 1)
             key == <<table[n].drug_norm, table[n].ade_norm>>
         IN IF key \in DOMAIN rest THEN rest
            ELSE Put(rest, key, table[n].frequency)

\* The dict comprehension over sider_df.iterrows(): a later row overwrites.
RECURSIVE BuildSiderFreqs(_, _)
BuildSiderFreqs(table, n) ==
    IF n = 0 THEN EmptyDict
    ELSE Put(BuildSiderFreqs(table, n - 1),
             <<table[n].drug_norm, table[n].ade_norm>>, table[n].frequency)

\* A mutant: scoring starts as soon as one row has been aggregated.
AggregationDoneAfterFirstRow(table, i) == i >= 1 \/ i = Len(table)

\* The loop of analyze_drug_patterns has consumed every row.
AggregationDone(table, i) == i = Len(table)

\* main parses the command line and loads the two tables.
InitFilter ==
    /\ pc = "start"
    /\ NormalizeIdle
    /\ LinkIdle
    /\ BuildIdle
    /\ n2c2_df \in SeqsUpTo(MentionRows, MaxMentions)
    /\ sider_df \in SiderTables
    /\ \E c \in Configs : min_freq = c[1] /\ consistency_threshold = c[2]
    /\ sider_freqs = EmptyDict
    /\ drug_patterns = EmptyDict
    /\ idx = 0
    /\ keep_rows = <<>>
    /\ reasons = <<>>

\* filter_ades builds the frequency lookup and enters analyze_drug_patterns.
BuildLookup ==
    /\ pc = "start"
    /\ sider_freqs' = BuildSiderFreqs(sider_df, Len(sider_df))
    /\ drug_patterns' = EmptyDict
    /\ idx' = 0
    /\ pc' = "aggregate"
    /\ UNCHANGED <<n2c2_df, sider_df, min_freq, consistency_threshold,
                   keep_rows, reasons>>
    /\ UNCHANGED <<normalize_vars, link_vars, build_vars>>

\* One row of the aggregation pass.
AggregateStep ==
    /\ pc = "aggregate"
    /\ ~AggregationDone(n2c2_df, idx)
    /\ idx < Len(n2c2_df)
    /\ drug_patterns' = AggregateRow(drug_patterns, n2c2_df[idx + 1])
    /\ idx' = idx + 1
    /\ UNCHANGED <<pc, n2c2_df, sider_df, min_freq, consistency_threshold,
                   sider_freqs, keep_rows, reasons>>
    /\ UNCHANGED <<normalize_vars, link_vars, build_vars>>

\* analyze_drug_patterns returns; the scoring loop starts.
AggregateReturn ==
    /\ pc = "aggregate"
    /\ AggregationDone(n2c2_df, idx)
    /\ pc' = "score"
    /\ idx' = 0
    /\ UNCHANGED <<n2c2_df, sider_df, min_freq, consistency_threshold,
                   sider_freqs, drug_patterns, keep_rows, reasons>>
    /\ UNCHANGED <<normalize_vars, link_vars, build_vars>>

\* One row of the scoring pass.
ScoreStep ==
    /\ pc = "score"
    /\ idx < Len(n2c2_df)
    /\ LET d == should_keep_ade(n2c2_df[idx + 1], drug_patterns, sider_freqs,
                                min_freq, consistency_threshold)
       IN /\ keep_rows' = Append(keep_rows, d[1])
          /\ reasons' = Append(reasons, d[2])
    /\ drug_patterns' = PatternsAfterLookups(drug_patterns, n2c2_df[idx + 1])
    /\ idx' = idx + 1
    /\ UNCHANGED <<pc, n2c2_df, sider_df, min_freq, consistency_threshold,
                   sider_freqs>>
    /\ UNCHANGED <<normalize_vars, link_vars, build_vars>>

\* The decision columns are added and the table is returned.
FilterReturn ==
    /\ pc = "score"
    /\ idx = Len(n2c2_df)
    /\ pc' = "done"
    /\ UNCHANGED <<n2c2_df, sider_df, min_freq, consistency_threshold,
                   sider_freqs, drug_patterns, idx, keep_rows, reasons>>
    /\ UNCHANGED <<normalize_vars, link_vars, build_vars>>

-----------------------------------------------------------------------------
(* should_keep_ade called on its own, with any pattern map and lookup.     *)

MinFreqs == {-1, 0, 2, 3}
Thresholds == {0, 40, 100}

\* The pattern maps of a direct call: no entry for the drug, or one entry with
\* any counts (a caller may hand in totals that no aggregation produced).
CallPatterns(row) ==
    {EmptyDict} \cup
    { Put(EmptyDict, row.drug_norm,
          [total_mentions |-> t, ades |-> a,
           consistent_ades |-> {}, sider_validated |-> v]) :
        <<t, a, v>> \in
            (0..MaxTotal)
            \X ({EmptyDict} \cup
                { Put(EmptyDict, row.ade_norm, n) : n \in 0..MaxTotal })
            \X (0..MaxTotal) }

CallFreqs(row) ==
    {EmptyDict} \cup
    { Put(EmptyDict, <<row.drug_norm, row.ade_norm>>, f) : f \in 0..MaxFreq }

InitCall ==
    /\ pc = "call"
    /\ NormalizeIdle
    /\ LinkIdle
    /\ BuildIdle
    /\ \E c \in BOOLEAN : n2c2_df = << Mention("d1", "a1", c) >>
    /\ sider_df = <<>>
    /\ min_freq \in MinFreqs
    /\ consistency_threshold \in Thresholds
    /\ sider_freqs \in CallFreqs(Mention("d1", "a1", TRUE))
    /\ drug_patterns \in CallPatterns(Mention("d1", "a1", TRUE))
    /\ idx = 0
    /\ keep_rows = <<>>
    /\ reasons = <<>>

CallShouldKeepAde ==
    /\ pc = "call"
    /\ LET d == should_keep_ade(n2c2_df[1], drug_patterns, sider_freqs,
                                min_freq, consistency_threshold)
       IN /\ keep_rows' = <<d[1]>>
          /\ reasons' = <<d[2]>>
    /\ drug_patterns' = PatternsAfterLookups(drug_patterns, n2c2_df[1])
    /\ idx' = 1
    /\ pc' = "returned"
    /\ UNCHANGED <<n2c2_df, sider_df, min_freq, consistency_threshold,
                   sider_freqs>>
    /\ UNCHANGED <<normalize_vars, link_vars, build_vars>>

-----------------------------------------------------------------------------
(* Runs of normalize_terms.py and clean_n2c2_normalized.py.                *)

FilterIdle ==
    /\ n2c2_df = <<>>
    /\ sider_df = <<>>
    /\ min_freq = 2
    /\ consistency_threshold = 40
    /\ sider_freqs = EmptyDict
    /\ drug_patterns = EmptyDict
    /\ idx = 0
    /\ keep_rows = <<>>
    /\ reasons = <<>>

\* normalize_text called on any cell value.
InitNormalizeText ==
    /\ pc = "nt_call"
    /\ FilterIdle
    /\ LinkIdle
    /\ BuildIdle
    /\ backend = "none"
    /\ nt_arg \in {NaN} \cup { Str(s) : s \in SeqsUpTo(Alphabet, MaxLen) }
    /\ nt_ret = <<>>
    /\ fm_arg = <<>>
    /\ fm_ret = <<>>
    /\ drug_dict = <<>>
    /\ se_dict = <<>>
    /\ relations_df = <<>>
    /\ normalized_df = <<>>
    /\ clean_df = <<>>

NormalizeTextCall ==
    /\ pc = "nt_call"
    /\ nt_ret' = << normalize_text(nt_arg) >>
    /\ pc' = "nt_returned"
    /\ UNCHANGED <<backend, nt_arg, fm_arg, fm_ret, drug_dict, se_dict,
                   relations_df, normalized_df, clean_df>>
    /\ UNCHANGED <<filter_vars, link_vars, build_vars>>

\* normalize_text called on the key it returned.
NormalizeTextAgain ==
    /\ pc = "nt_returned"
    /\ nt_ret' = Append(nt_ret, normalize_text(Str(nt_ret[1])))
    /\ pc' = "nt_again"
    /\ UNCHANGED <<backend, nt_arg, fm_arg, fm_ret, drug_dict, se_dict,
                   relations_df, normalized_df, clean_df>>
    /\ UNCHANGED <<filter_vars, link_vars, build_vars>>

\* fuzzy_match called on any term, dictionary and threshold.
InitFuzzyMatch ==
    /\ pc = "fm_call"
    /\ FilterIdle
    /\ LinkIdle
    /\ BuildIdle
    /\ backend \in Backends
    /\ nt_arg = NaN
    /\ nt_ret = <<>>
    /\ fm_arg \in [term : MatchTerms, reference_dict : RefDicts,
                   threshold : MatchThresholds]
    /\ fm_ret = <<>>
    /\ drug_dict = <<>>
    /\ se_dict = <<>>
    /\ relations_df = <<>>
    /\ normalized_df = <<>>
    /\ clean_df = <<>>

FuzzyMatchCall ==
    /\ pc = "fm_call"
    /\ \E res \in LibraryAnswers(backend, fm_arg.reference_dict) :
          fm_ret' = fuzzy_match(fm_arg.term, fm_arg.reference_dict,
                                fm_arg.threshold, backend, res)
    /\ pc' = "fm_returned"
    /\ UNCHANGED <<backend, nt_arg, nt_ret, fm_arg, drug_dict, se_dict,
                   relations_df, normalized_df, clean_df>>
    /\ UNCHANGED <<filter_vars, link_vars, build_vars>>

\* main has loaded the dictionaries and the relation table.
InitMain ==
    /\ pc = "main_loop"
    /\ FilterIdle
    /\ LinkIdle
    /\ BuildIdle
    /\ backend \in Backends
    /\ nt_arg = NaN
    /\ nt_ret = <<>>
    /\ fm_arg = <<>>
    /\ fm_ret = <<>>
    /\ drug_dict \in RefDicts
    /\ se_dict \in RefDicts
    /\ relations_df \in SeqsUpTo(RawRows, MaxRelations)
    /\ normalized_df = <<>>
    /\ clean_df = <<>>

\* One row of the loop of main.
MainStep ==
    /\ pc = "main_loop"
    /\ Len(normalized_df) < Len(relations_df)
    /\ \E dres \in LibraryAnswers(backend, drug_dict),
          ares \in LibraryAnswers(backend, se_dict) :
          normalized_df' =
              Append(normalized_df,
                     MainRow(relations_df[Len(normalized_df) + 1],
                             drug_dict, se_dict, backend, dres, ares))
    /\ UNCHANGED <<pc, backend, nt_arg, nt_ret, fm_arg, fm_ret, drug_dict,
                   se_dict, relations_df, clean_df>>
    /\ UNCHANGED <<filter_vars, link_vars, build_vars>>

\* main writes n2c2_normalized.csv.
MainWrite ==
    /\ pc = "main_loop"
    /\ Len(normalized_df) = Len(relations_df)
    /\ pc' = "main_written"
    /\ UNCHANGED normalize_vars
    /\ UNCHANGED <<filter_vars, link_vars, build_vars>>

\* clean_n2c2_normalized.py reads the file and writes n2c2_clean.csv.
CleanRun ==
    /\ pc = "main_written"
    /\ clean_df' = [k \in 1..Len(normalized_df) |-> CleanRow(normalized_df[k])]
    /\ pc' = "cleaned"
    /\ UNCHANGED <<backend, nt_arg, nt_ret, fm_arg, fm_ret, drug_dict, se_dict,
                   relations_df, normalized_df>>
    /\ UNCHANGED <<filter_vars, link_vars, build_vars>>

-----------------------------------------------------------------------------
(* A run of link_sider.py.                                                 *)

InitLink ==
    /\ pc = "link_start"
    /\ FilterIdle
    /\ NormalizeIdle
    /\ BuildIdle
    /\ n2c2_normalized \in SeqsUpTo(LinkMentionRows, MaxLinkRows)
    /\ sider_effects \in SeqsUpTo(LinkSiderRows, MaxLinkRows)
    /\ sider_pairs = {}
    /\ sider_drugs_set = {}
    /\ n2c2_data = <<>>
    /\ link_idx = 0

\* check_ade_consistency builds the lookup sets and the flagged copy.
LinkPrepare ==
    /\ pc = "link_start"
    /\ sider_pairs' = SiderPairs(sider_effects)
    /\ sider_drugs_set' = SiderDrugsSet(sider_effects)
    /\ n2c2_data' = [k \in 1..Len(n2c2_normalized) |-> PrepareRow(n2c2_normalized[k])]
    /\ link_idx' = 0
    /\ pc' = "link_loop"
    /\ UNCHANGED <<n2c2_normalized, sider_effects>>
    /\ UNCHANGED <<filter_vars, normalize_vars, build_vars>>

LinkStep ==
    /\ pc = "link_loop"
    /\ link_idx < Len(n2c2_data)
    /\ n2c2_data' = [n2c2_data EXCEPT ![link_idx + 1] =
                        LinkRow(@, sider_pairs, sider_drugs_set)]
    /\ link_idx' = link_idx + 1
    /\ UNCHANGED <<pc, n2c2_normalized, sider_effects, sider_pairs, sider_drugs_set>>
    /\ UNCHANGED <<filter_vars, normalize_vars, build_vars>>

LinkReturn ==
    /\ pc = "link_loop"
    /\ link_idx = Len(n2c2_data)
    /\ pc' = "link_done"
    /\ UNCHANGED link_vars
    /\ UNCHANGED <<filter_vars, normalize_vars, build_vars>>

-----------------------------------------------------------------------------
(* main of normalize_terms.py, step 2: build_sider_clean and the write of  *)
(* sider_clean.csv, then the two scripts that read the file.               *)

InitBuild ==
    /\ pc = "build_start"
    /\ FilterIdle
    /\ NormalizeIdle
    /\ LinkIdle
    /\ raw_files_exist \in BOOLEAN
    /\ drug_df \in SeqsUpTo(DrugNameRows, MaxDrugRows)
    /\ meddra_df \in SeqsUpTo(MeddraRows, MaxMeddraRows)
    /\ ~raw_files_exist => (drug_df = <<>> /\ meddra_df = <<>>)
    /\ stitch_to_drug = EmptyDict
    /\ pairs_list = <<>>
    /\ build_idx = 0
    /\ df_pairs = Frame(<<>>, <<>>)
    /\ sider_clean_csv = Frame(<<>>, <<>>)

\* A raw file is missing: the empty frame with the two columns is returned.
BuildFilesMissing ==
    /\ pc = "build_start"
    /\ ~raw_files_exist
    /\ df_pairs' = EmptyPairsFrame
    /\ pc' = "build_returned"
    /\ UNCHANGED <<raw_files_exist, drug_df, meddra_df, stitch_to_drug, pairs_list,
                   build_idx, sider_clean_csv>>
    /\ UNCHANGED <<filter_vars, normalize_vars, link_vars>>

\* drug_names.tsv is read; the loop over its rows starts.
BuildReadDrugs ==
    /\ pc = "build_start"
    /\ raw_files_exist
    /\ stitch_to_drug' = EmptyDict
    /\ build_idx' = 0
    /\ pc' = "build_drugs"
    /\ UNCHANGED <<raw_files_exist, drug_df, meddra_df, pairs_list, df_pairs,
                   sider_clean_csv>>
    /\ UNCHANGED <<filter_vars, normalize_vars, link_vars>>

BuildDrugStep ==
    /\ pc = "build_drugs"
    /\ build_idx < Len(drug_df)
    /\ stitch_to_drug' = MapDrugRow(stitch_to_drug, drug_df[build_idx + 1])
    /\ build_idx' = build_idx + 1
    /\ UNCHANGED <<pc, raw_files_exist, drug_df, meddra_df, pairs_list, df_pairs,
                   sider_clean_csv>>
    /\ UNCHANGED <<filter_vars, normalize_vars, link_vars>>

\* meddra_all_se.tsv is read; the loop over its rows starts.
BuildReadMeddra ==
    /\ pc = "build_drugs"
    /\ build_idx = Len(drug_df)
    /\ pairs_list' = <<>>
    /\ build_idx' = 0
    /\ pc' = "build_meddra"
    /\ UNCHANGED <<raw_files_exist, drug_df, meddra_df, stitch_to_drug,
                   df_pairs, sider_clean_csv>>
    /\ UNCHANGED <<filter_vars, normalize_vars, link_vars>>

BuildMeddraStep ==
    /\ pc = "build_meddra"
    /\ build_idx < Len(meddra_df)
    /\ pairs_list' = JoinMeddraRow(pairs_list, stitch_to_drug, meddra_df[build_idx + 1])
    /\ build_idx' = build_idx + 1
    /\ UNCHANGED <<pc, raw_files_exist, drug_df, meddra_df, stitch_to_drug,
                   df_pairs, sider_clean_csv>>
    /\ UNCHANGED <<filter_vars, normalize_vars, link_vars>>

\* The frame of the joined rows, duplicates dropped, is returned.
BuildReturn ==
    /\ pc = "build_meddra"
    /\ build_idx = Len(meddra_df)
    /\ df_pairs' = DataFrame(DropDuplicates(pairs_list))
    /\ pc' = "build_returned"
    /\ UNCHANGED <<raw_files_exist, drug_df, meddra_df, stitch_to_drug, pairs_list,
                   build_idx, sider_clean_csv>>
    /\ UNCHANGED <<filter_vars, normalize_vars, link_vars>>

\* main writes the frame to sider_clean.csv and then selects on its columns
\* drug_name and side_effect, which a frame without columns does not have.
MainWriteSider ==
    /\ pc = "build_returned"
    /\ sider_clean_csv' = df_pairs
    /\ pc' = IF {"drug_name", "side_effect"} \subseteq Columns(df_pairs)
             THEN "sider_written" ELSE "sider_keyerror"
    /\ UNCHANGED <<raw_files_exist, drug_df, meddra_df, stitch_to_drug, pairs_list,
                   build_idx, df_pairs>>
    /\ UNCHANGED <<filter_vars, normalize_vars, link_vars>>

\* link_sider.py reads the file; check_ade_consistency indexes its columns.
LinkLoadSider ==
    /\ pc = "sider_written"
    /\ pc' = IF LinkReads \subseteq Columns(sider_clean_csv)
             THEN "link_loaded" ELSE "link_keyerror"
    /\ UNCHANGED build_vars
    /\ UNCHANGED <<filter_vars, normalize_vars, link_vars>>

\* filter_ades.py reads the file; the lookup comprehension indexes each row.
FilterLoadSider ==
    /\ pc = "sider_written"
    /\ pc' = IF sider_clean_csv.rows = <<>>
                \/ FilterReads \subseteq Columns(sider_clean_csv)
             THEN "filter_loaded" ELSE "filter_keyerror"
    /\ UNCHANGED build_vars
    /\ UNCHANGED <<filter_vars, normalize_vars, link_vars>>

NextBuild ==
    \/ BuildFilesMissing
    \/ BuildReadDrugs
    \/ BuildDrugStep
    \/ BuildReadMeddra
    \/ BuildMeddraStep
    \/ BuildReturn
    \/ MainWriteSider
    \/ LinkLoadSider
    \/ FilterLoadSider

SpecBuild == InitBuild /\ [][NextBuild]_vars

-----------------------------------------------------------------------------

Init == InitFilter \/ InitCall

Next ==
    \/ BuildLookup
    \/ AggregateStep
    \/ AggregateReturn
    \/ ScoreStep
    \/ FilterReturn
    \/ CallShouldKeepAde

Spec == Init /\ [][Next]_vars

\* A run of filter_ades alone, on a short mention table.
InitShortTable == InitFilter /\ Len(n2c2_df) <= MaxPermuted

NextFilter ==
    \/ BuildLookup
    \/ AggregateStep
    \/ AggregateReturn
    \/ ScoreStep
    \/ FilterReturn

SpecFilter == InitShortTable /\ [][NextFilter]_vars

NextNormalizeText == NormalizeTextCall \/ NormalizeTextAgain

SpecNormalizeText == InitNormalizeText /\ [][NextNormalizeText]_vars

NextMatch ==
    \/ FuzzyMatchCall
    \/ MainStep
    \/ MainWrite
    \/ CleanRun

InitMatch == InitFuzzyMatch \/ InitMain

SpecMatch == InitMatch /\ [][NextMatch]_vars

NextLink == LinkPrepare \/ LinkStep \/ LinkReturn

SpecLink == InitLink /\ [][NextLink]_vars

-----------------------------------------------------------------------------
(* What the claims speak of, stated without the scorer's own code.         *)

InFilterRun == pc \in {"start", "aggregate", "score", "done"}
Aggregated == pc \in {"score", "done"}

\* The positions of n2c2_df that have a decision.
Scored == 1..Len(keep_rows)

StatsOf(k) == Get(drug_patterns, n2c2_df[k].drug_norm, DefaultStats)
TotalOf(k) == StatsOf(k).total_mentions
AdeCountOf(k) == Get(StatsOf(k).ades, n2c2_df[k].ade_norm, 0)
ValidatedOf(k) == StatsOf(k).sider_validated
FreqOf(k) == Get(sider_freqs, <<n2c2_df[k].drug_norm, n2c2_df[k].ade_norm>>, 0)

Rule1(k) == n2c2_df[k].is_consistent /\ FreqOf(k) >= min_freq
Rule2(k) == TotalOf(k) > 0 /\ 2 * AdeCountOf(k) >= TotalOf(k) /\ AdeCountOf(k) >= 2
Rule3(k) ==
    /\ IF TotalOf(k) > 0
       THEN 100 * ValidatedOf(k) >= consistency_threshold * TotalOf(k)
       ELSE 0 >= consistency_threshold
    /\ AdeCountOf(k) >= 2
Rule4(k) == TotalOf(k) >= 5 /\ 10 * AdeCountOf(k) >= 3 * TotalOf(k)

\* How many rows of the whole mention table satisfy a condition.
MentionsOfDrug(d) ==
    Cardinality({ j \in 1..Len(n2c2_df) : n2c2_df[j].drug_norm = d })
MentionsOfPair(d, a) ==
    Cardinality({ j \in 1..Len(n2c2_df) :
                    n2c2_df[j].drug_norm = d /\ n2c2_df[j].ade_norm = a })

\* C1 (as amended): whenever rule 1 holds for a scored mention, the decision
\* is kept with the rule-1 reason code, which the code spells
\* high_confidence_sider, also when rule 2 holds too; it is never
\* strong_local_signal.
C1_Rule1WinsOverRule2 ==
    \A k \in Scored :
        Rule1(k) => /\ keep_rows[k] = TRUE
                    /\ reasons[k] = "high_confidence_sider"
                    /\ reasons[k] # "strong_local_signal"

\* C1 as stated: the reason of a rule-1 mention is high_confidence_reference.
C1_AsStated ==
    \A k \in Scored :
        Rule1(k) => /\ keep_rows[k] = TRUE
                    /\ reasons[k] = "high_confidence_reference"

\* A scored mention for which rule 1 and rule 2 hold together.
C1_Witness ==
    \E k \in Scored : Rule1(k) /\ Rule2(k) /\ reasons[k] = "high_confidence_sider"

\* C2: a mention is kept exactly when one of the four rules holds, rejected
\* with insufficient_evidence exactly when none holds, and kept as
\* strong_local_signal when rule 1 fails and rule 2 holds.
C2_KeptIffSomeRule ==
    \A k \in Scored :
        /\ keep_rows[k] = (Rule1(k) \/ Rule2(k) \/ Rule3(k) \/ Rule4(k))
        /\ (reasons[k] = "insufficient_evidence") = ~keep_rows[k]
        /\ (~Rule1(k) /\ Rule2(k)) => reasons[k] = "strong_local_signal"

\* One run with a strong local signal without rule 1 and a rejected mention.
C2_Witness ==
    /\ pc = "done"
    /\ \E k \in Scored :
          ~Rule1(k) /\ Rule2(k) /\ reasons[k] = "strong_local_signal"
    /\ \E k \in Scored :
          ~keep_rows[k] /\ reasons[k] = "insufficient_evidence"

\* C3: after any prefix of the aggregation pass, every drug's per-ADE counts
\* sum to its total_mentions and sider_validated is at most total_mentions.
C3_CountsSumToTotal ==
    InFilterRun =>
        \A d \in DOMAIN drug_patterns :
            /\ SumValues(drug_patterns[d].ades) = drug_patterns[d].total_mentions
            /\ drug_patterns[d].sider_validated <= drug_patterns[d].total_mentions

\* Midway through the pass, a drug with two ADEs, some validated, some not.
C3_Witness ==
    /\ pc = "aggregate"
    /\ idx < Len(n2c2_df)
    /\ \E d \in DOMAIN drug_patterns :
          /\ Cardinality(DOMAIN drug_patterns[d].ades) = 2
          /\ drug_patterns[d].sider_validated > 0
          /\ drug_patterns[d].sider_validated < drug_patterns[d].total_mentions

\* C4: no decision exists while the aggregation pass is running, and once
\* scoring has begun the pattern map counts every mention of the table,
\* later positions included.
C4_AggregateBeforeScoring ==
    InFilterRun =>
        /\ (keep_rows # <<>> => Aggregated)
        /\ Aggregated =>
              \A j \in 1..Len(n2c2_df) :
                  /\ n2c2_df[j].drug_norm \in DOMAIN drug_patterns
                  /\ TotalOf(j) = MentionsOfDrug(n2c2_df[j].drug_norm)
                  /\ AdeCountOf(j) =
                        MentionsOfPair(n2c2_df[j].drug_norm, n2c2_df[j].ade_norm)

\* The first mention has its decision and its drug occurs again later.
C4_Witness ==
    /\ pc = "score"
    /\ Len(keep_rows) = 1
    /\ \E j \in 2..Len(n2c2_df) : n2c2_df[j].drug_norm = n2c2_df[1].drug_norm
    /\ TotalOf(1) >= 2

ConfigInRange ==
    min_freq >= 0 /\ consistency_threshold >= 0 /\ consistency_threshold <= 100

\* C8 as stated: with an out-of-range min_freq or consistency_threshold the
\* filter stops before any mention is aggregated or scored, produces no
\* decision and does not return a decision table.

C8_AsStated ==
    (InFilterRun /\ ~ConfigInRange) =>
        /\ pc # "done"
        /\ drug_patterns = EmptyDict
        /\ keep_rows = <<>>

\* The reason codes should_keep_ade returns.
Reasons ==
    {"high_confidence_sider", "strong_local_signal", "consistent_drug_pattern",
     "frequent_association", "insufficient_evidence"}

\* C9: in a filter run every scored mention's drug has a pattern with
\* total_mentions >= 1 and a count >= 1 for the mention's ADE; in a direct
\* call for a drug with no pattern or zero total mentions a decision is
\* returned and it is the one that ratios of 0 give.
C9_NoDivisionByZero ==
    /\ InFilterRun =>
          \A k \in Scored :
              /\ n2c2_df[k].drug_norm \in DOMAIN drug_patterns
              /\ TotalOf(k) >= 1
              /\ AdeCountOf(k) >= 1
    /\ (pc = "returned" /\ TotalOf(1) = 0) =>
          /\ Len(keep_rows) = 1
          /\ reasons[1] \in Reasons
          /\ reasons[1] \notin {"strong_local_signal", "frequent_association"}
          /\ reasons[1] = "consistent_drug_pattern" =>
                (0 >= consistency_threshold /\ AdeCountOf(1) >= 2)
          /\ keep_rows[1] =
                (Rule1(1) \/ (0 >= consistency_threshold /\ AdeCountOf(1) >= 2))

\* A direct call with zero total mentions but a per-ADE count of two, which
\* only a ratio of 0 keeps from rule 2.
C9_Witness ==
    /\ pc = "returned"
    /\ n2c2_df[1].drug_norm \in DOMAIN drug_patterns
    /\ TotalOf(1) = 0
    /\ AdeCountOf(1) >= 2
    /\ reasons[1] = "insufficient_evidence"


\* C5 as stated: fuzzy_match never returns a non-empty key or surface form
\* together with a score below the threshold.
C5_AsStated ==
    pc = "fm_returned" =>
        (fm_ret[3] < fm_arg.threshold => (fm_ret[1] = <<>> /\ fm_ret[2] = <<>>))

\* The key the later stages are to use on one side.
ResolvedCell(matched, normalized) ==
    IF ~matched.isna /\ matched.s # <<>> THEN matched ELSE normalized

\* C7 as stated: on each side the identity written by the clean step is the
\* matched key when it is present and non-empty and the normalized key
\* otherwise; no row is dropped; a side whose match score is below the
\* threshold proceeds with its normalized key.
C7_AsStated ==
    pc = "cleaned" =>
        /\ Len(clean_df) = Len(relations_df)
        /\ \A k \in 1..Len(clean_df) :
              LET row == normalized_df[k]
              IN /\ clean_df[k].drug_norm =
                        ResolvedCell(CsvCell(row.drug_matched),
                                     CsvCell(row.drug_normalized))
                 /\ clean_df[k].ade_norm =
                        ResolvedCell(CsvCell(row.ade_matched),
                                     CsvCell(row.ade_normalized))
                 /\ row.drug_match_score < DefaultThreshold =>
                        clean_df[k].drug_norm = CsvCell(row.drug_normalized)
                 /\ row.ade_match_score < DefaultThreshold =>
                        clean_df[k].ade_norm = CsvCell(row.ade_normalized)

\* C10: normalize_text applied to its own result returns that result, and a
\* missing value gives the empty string.
C10_NormalizeIdempotent ==
    /\ pc = "nt_again" => nt_ret[2] = nt_ret[1]
    /\ (pc \in {"nt_returned", "nt_again"} /\ nt_arg.isna) => nt_ret[1] = <<>>

\* An input with upper case, punctuation and padding, normalized twice.
C10_Witness ==
    /\ pc = "nt_again"
    /\ ~nt_arg.isna
    /\ nt_arg.s # nt_ret[1]
    /\ \E i \in 1..Len(nt_arg.s) : nt_arg.s[i] \in Punctuation
    /\ nt_arg.s[1] \in Whitespace
    /\ nt_ret[1] # <<>>


\* The associations and the drugs of the reference table, keys lowered and
\* stripped.
ReferencePairs ==
    { << LowerStrip(FillEmpty(sider_effects[i].drug_norm)),
         LowerStrip(FillEmpty(sider_effects[i].ade_norm)) >> :
        i \in 1..Len(sider_effects) }
ReferenceDrugs == { p[1] : p \in ReferencePairs }


\* C6: for every mention the loop has handled, is_consistent is true exactly
\* when its (drug, ADE) pair is an association of the reference, and
\* sider_match_found is true exactly when its drug occurs in the reference,
\* whatever the ADE.
C6_FlagsMatchReference ==
    pc \in {"link_loop", "link_done"} =>
        \A k \in 1..link_idx :
            /\ n2c2_data[k].is_consistent =
                  (<<n2c2_data[k].drug_norm, n2c2_data[k].ade_norm>> \in ReferencePairs)
            /\ n2c2_data[k].sider_match_found =
                  (n2c2_data[k].drug_norm \in ReferenceDrugs)

\* A finished run with a drug of the reference mentioned with an ADE the
\* reference does not list for it, and a drug the reference does not hold.
C6_Witness ==
    /\ pc = "link_done"
    /\ \E k \in 1..Len(n2c2_data) :
          n2c2_data[k].sider_match_found /\ ~n2c2_data[k].is_consistent
    /\ \E k \in 1..Len(n2c2_data) : ~n2c2_data[k].sider_match_found


\* Whether a text holds two whitespace characters in a row.
HasWhitespaceRun(s) ==
    \E i \in 1..(Len(s) - 1) : s[i] \in Whitespace /\ s[i + 1] \in Whitespace

\* C11 (as amended): the key normalize_text returns has no whitespace at
\* either end; whitespace inside the key is left as it is.
C11_EndsTrimmed ==
    pc \in {"nt_returned", "nt_again"} =>
        \/ nt_ret[1] = <<>>
        \/ /\ nt_ret[1][1] \notin Whitespace
           /\ nt_ret[1][Len(nt_ret[1])] \notin Whitespace

\* C11 as stated: the key holds no run of two or more whitespace characters.
C11_AsStated ==
    pc \in {"nt_returned", "nt_again"} => ~HasWhitespaceRun(nt_ret[1])

\* A key that comes back trimmed at both ends with two blanks side by side
\* inside it.
C11_Witness ==
    /\ pc = "nt_returned"
    /\ ~nt_arg.isna
    /\ nt_ret[1] # <<>>
    /\ HasWhitespaceRun(nt_ret[1])


\* The rows of the reference table that carry a (drug, ADE) pair.
SiderRowsOf(d, a) ==
    { i \in 1..Len(sider_df) :
        sider_df[i].drug_norm = d /\ sider_df[i].ade_norm = a }
FirstFrequency(d, a) == sider_df[SetMin(SiderRowsOf(d, a))].frequency
LastFrequency(d, a) == sider_df[SetMax(SiderRowsOf(d, a))].frequency

\* The lookup holds one entry per pair of the reference table.
OneEntryPerPair ==
    DOMAIN sider_freqs =
        { <<sider_df[i].drug_norm, sider_df[i].ade_norm>> : i \in 1..Len(sider_df) }

\* C13 (as amended): when the reference table lists a (drug, ADE) pair more
\* than once with different frequency values, the lookup holds exactly one
\* entry for the pair and its value, the one rule 1 is tested with, is the
\* frequency of the last row seen for that pair.
C13_LastRowWins ==
    (InFilterRun /\ pc # "start") =>
        /\ OneEntryPerPair
        /\ \A i \in 1..Len(sider_df) :
               sider_freqs[<<sider_df[i].drug_norm, sider_df[i].ade_norm>>] =
                   LastFrequency(sider_df[i].drug_norm, sider_df[i].ade_norm)
        /\ \A k \in Scored :
               (n2c2_df[k].is_consistent
                   /\ SiderRowsOf(n2c2_df[k].drug_norm, n2c2_df[k].ade_norm) # {})
               => ((reasons[k] = "high_confidence_sider") <=>
                       LastFrequency(n2c2_df[k].drug_norm, n2c2_df[k].ade_norm)
                           >= min_freq)

\* C13 as stated: the single entry carries the frequency of the first row
\* seen for the pair, and rule 1 is tested with that value.
C13_AsStated ==
    (InFilterRun /\ pc # "start") =>
        /\ OneEntryPerPair
        /\ \A i \in 1..Len(sider_df) :
               sider_freqs[<<sider_df[i].drug_norm, sider_df[i].ade_norm>>] =
                   FirstFrequency(sider_df[i].drug_norm, sider_df[i].ade_norm)
        /\ \A k \in Scored :
               (n2c2_df[k].is_consistent
                   /\ SiderRowsOf(n2c2_df[k].drug_norm, n2c2_df[k].ade_norm) # {})
               => ((reasons[k] = "high_confidence_sider") <=>
                       FirstFrequency(n2c2_df[k].drug_norm, n2c2_df[k].ade_norm)
                           >= min_freq)

\* A consistent mention is kept by rule 1 on the frequency of the last row of
\* its pair although the first row of the pair is below min_freq.
C13_Witness ==
    /\ pc = "done"
    /\ \E k \in Scored :
           LET d == n2c2_df[k].drug_norm
               a == n2c2_df[k].ade_norm
           IN /\ n2c2_df[k].is_consistent
              /\ Cardinality(SiderRowsOf(d, a)) >= 2
              /\ FirstFrequency(d, a) < min_freq
              /\ LastFrequency(d, a) >= min_freq
              /\ reasons[k] = "high_confidence_sider"


\* C14: the pattern map is read-only during scoring: no call of
\* should_keep_ade, in the scoring loop or on its own, adds a drug key, adds
\* an ADE key or changes a count, so the map after scoring is the map
\* analyze_drug_patterns returned.
C14_PatternMapReadOnly ==
    [][(pc \in {"score", "call"}) => (drug_patterns' = drug_patterns)]_vars

\* A decision has been returned for a mention whose drug, or whose ADE, the
\* pattern map has no key for, and the map still has no such key.
C14_Witness ==
    /\ pc = "returned"
    /\ Len(keep_rows) = 1
    /\ \/ n2c2_df[1].drug_norm \notin DOMAIN drug_patterns
       \/ /\ n2c2_df[1].drug_norm \in DOMAIN drug_patterns
          /\ n2c2_df[1].ade_norm
                 \notin DOMAIN drug_patterns[n2c2_df[1].drug_norm].ades


\* C16: in the table check_ade_consistency builds, at every point of the loop
\* and on return, a mention flagged is_consistent is also flagged
\* sider_match_found.
C16_ConsistentImpliesMatchFound ==
    pc \in {"link_loop", "link_done"} =>
        \A k \in 1..Len(n2c2_data) :
            n2c2_data[k].is_consistent => n2c2_data[k].sider_match_found

\* A returned table with a mention flagged is_consistent, next to one that is
\* flagged neither way.
C16_Witness ==
    /\ pc = "link_done"
    /\ \E k \in 1..Len(n2c2_data) :
          n2c2_data[k].is_consistent /\ n2c2_data[k].sider_match_found
    /\ \E k \in 1..Len(n2c2_data) :
          ~n2c2_data[k].is_consistent /\ ~n2c2_data[k].sider_match_found


\* C17: in a run of filter_ades, a mention whose (drug, ADE) pair occurs
\* exactly once among the mentions of its drug is kept only through rule 1:
\* when it is not consistent, or its reference frequency is below min_freq, it
\* is rejected with insufficient_evidence.
C17_SingleMentionNeedsRule1 ==
    InFilterRun =>
        \A k \in Scored :
            MentionsOfPair(n2c2_df[k].drug_norm, n2c2_df[k].ade_norm) = 1 =>
                /\ keep_rows[k] => (Rule1(k) /\ reasons[k] = "high_confidence_sider")
                /\ (~n2c2_df[k].is_consistent \/ FreqOf(k) < min_freq) =>
                       (~keep_rows[k] /\ reasons[k] = "insufficient_evidence")

\* A pair mentioned once for a drug with several mentions, half or more of
\* them validated, is rejected for lack of rule 1, and another single mention
\* is kept through rule 1.
C17_Witness ==
    /\ pc = "done"
    /\ \E k \in Scored :
          /\ MentionsOfPair(n2c2_df[k].drug_norm, n2c2_df[k].ade_norm) = 1
          /\ MentionsOfDrug(n2c2_df[k].drug_norm) >= 3
          /\ 100 * ValidatedOf(k) >= consistency_threshold * TotalOf(k)
          /\ ~Rule1(k)
          /\ reasons[k] = "insufficient_evidence"
    /\ \E k \in Scored :
          /\ MentionsOfPair(n2c2_df[k].drug_norm, n2c2_df[k].ade_norm) = 1
          /\ keep_rows[k]


\* The mention table with its rows put in another order.
Permuted(table, p) == [i \in 1..Len(table) |-> table[p[i]]]

\* C18: the result of filter_ades does not depend on the order of the
\* mentions: for every permutation of the mention table the pattern map is the
\* same and every mention gets the same decision at its new position, and two
\* mentions with equal drug_norm, ade_norm and is_consistent get the same
\* decision.
C18_OrderIndependent ==
    pc = "done" =>
        /\ \A p \in Permutations(1..Len(n2c2_df)) :
               LET table == Permuted(n2c2_df, p)
                   patterns == analyze_drug_patterns(table, Len(table))
               IN /\ patterns = drug_patterns
                  /\ \A i \in 1..Len(table) :
                         should_keep_ade(table[i], patterns, sider_freqs,
                                         min_freq, consistency_threshold)
                             = <<keep_rows[p[i]], reasons[p[i]]>>
        /\ \A j, k \in Scored :
               n2c2_df[j] = n2c2_df[k] =>
                   (keep_rows[j] = keep_rows[k] /\ reasons[j] = reasons[k])

\* A finished run on a table that is not its own reverse, with the same
\* mention at two positions, one kept mention and one rejected mention.
C18_Witness ==
    /\ pc = "done"
    /\ Len(n2c2_df) >= 3
    /\ n2c2_df[1] # n2c2_df[Len(n2c2_df)]
    /\ \E j, k \in Scored : j # k /\ n2c2_df[j] = n2c2_df[k]
    /\ \E j, k \in Scored : keep_rows[j] /\ ~keep_rows[k]


\* What the build has to say about its tables, stated without its loops.
BuildRunning == pc \in {"build_drugs", "build_meddra"}
BuildReturned ==
    /\ raw_files_exist
    /\ pc \in {"build_returned", "sider_written", "sider_keyerror",
               "link_loaded", "link_keyerror", "filter_loaded", "filter_keyerror"}

\* Two rows share an identifier when their identifier cells read the same as
\* stripped text.
SameId(i, j) == IdKey(drug_df[i].stitch_id) = IdKey(meddra_df[j].stitch_flat)

NonEmptyPairs(S) == { pr \in S : pr[1] # <<>> /\ pr[2] # <<>> }

\* The pairs over the first n side-effect rows and every drug row of the same
\* identifier.
PairsOfAllDrugRows(n) ==
    NonEmptyPairs(
        { <<normalize_text(drug_df[i].drug_name),
            normalize_text(meddra_df[j].side_effect)>> :
            <<i, j>> \in { ij \in (1..Len(drug_df)) \X (1..n) :
                             SameId(ij[1], ij[2]) } })

\* The drug rows of the identifier of side-effect row j that carry a name.
NamedDrugRows(j) ==
    { i \in 1..Len(drug_df) : SameId(i, j) /\ NotBlank(drug_df[i].drug_name) }

\* The pairs over the first n side-effect rows and, for each, the last drug
\* row of the same identifier that carries a name.
PairsOfLastDrugRow(n) ==
    NonEmptyPairs(
        { <<normalize_text(drug_df[SetMax(NamedDrugRows(j))].drug_name),
            normalize_text(meddra_df[j].side_effect)>> :
            j \in { k \in 1..n : NamedDrugRows(k) # {} } })

RowPairs(rows) ==
    { <<rows[k].drug_name, rows[k].side_effect>> : k \in 1..Len(rows) }

NoRowTwice(rows) ==
    \A k, l \in 1..Len(rows) : rows[k] = rows[l] => k = l

\* C12 (as amended): the association set build_sider_clean returns is exactly
\* the set of pairs (normalize(drug_name), normalize(side_effect)) over all
\* side-effect rows and, for each, the last drug row with the same identifier
\* that has a non-blank name, minus the pairs with an empty component, each
\* pair once; a side-effect row whose identifier matches no drug row adds
\* nothing and the rows after it are still joined.
C12_JoinOnLastDrugRow ==
    /\ (pc = "build_meddra" /\ raw_files_exist) =>
           RowPairs(pairs_list) = PairsOfLastDrugRow(build_idx)
    /\ BuildReturned =>
           /\ RowPairs(df_pairs.rows) = PairsOfLastDrugRow(Len(meddra_df))
           /\ NoRowTwice(df_pairs.rows)

\* C12 as stated: the pairs range over all drug rows that share the
\* identifier of a side-effect row.
C12_AsStated ==
    /\ (pc = "build_meddra" /\ raw_files_exist) =>
           RowPairs(pairs_list) = PairsOfAllDrugRows(build_idx)
    /\ BuildReturned =>
           /\ RowPairs(df_pairs.rows) = PairsOfAllDrugRows(Len(meddra_df))
           /\ NoRowTwice(df_pairs.rows)

\* A returned build whose first side-effect row matched no drug row, whose
\* later row was joined, and whose drug table names one identifier twice.
C12_Witness ==
    /\ BuildReturned
    /\ pc = "build_returned"
    /\ Len(meddra_df) >= 2
    /\ IdKey(meddra_df[1].stitch_flat) \notin DOMAIN stitch_to_drug
    /\ df_pairs.rows # <<>>
    /\ \E i, k \in 1..Len(drug_df) :
          /\ i < k
          /\ IdKey(drug_df[i].stitch_id) = IdKey(drug_df[k].stitch_id)
          /\ NotBlank(drug_df[i].drug_name)
          /\ NotBlank(drug_df[k].drug_name)
          /\ normalize_text(drug_df[i].drug_name)
                 # normalize_text(drug_df[k].drug_name)


\* C15 as stated: the file sider_clean.csv written from the frame of
\* build_sider_clean carries every column its two readers index, drug_norm
\* and ade_norm for check_ade_consistency and drug_norm, ade_norm and
\* frequency for filter_ades, and neither reader stops on a missing column.
C15_AsStated ==
    /\ pc \in {"sider_written", "link_loaded", "link_keyerror",
               "filter_loaded", "filter_keyerror"} =>
           (LinkReads \cup FilterReads) \subseteq Columns(sider_clean_csv)
    /\ pc \notin {"link_keyerror", "filter_keyerror"}

====
